---- MODULE Spec2Model ----
(***************************************************************************)
(* Model of the tyre scraper (src/main.py): the site-A browser engine      *)
(* DexelScraper, the site-B HTTP engine NationalTyreExtractor, the shared  *)
(* base class TyreScraper (fetch_html, fetch_html_timed, add_to_database). *)
(* Strings are sequences of one-character strings, so that strip, split,   *)
(* capitalize and lower are computed, not assumed.                         *)
(***************************************************************************)
EXTENDS Integers, Sequences, FiniteSets, TLC

\* ------------------------------------------------------------------ bounds

\* Most branches the site-A branch picker shows.
MaxBranches == 2
\* Longest list of size queries handed to scrape(inputs).
MaxInputs == 2
\* Most result pages of one (branch, size) search on site A.
MaxPages == 3
\* Most tyre cards on one result page.
MaxCards == 2
\* Widest digit window of the pagination footer (links each side of the
\* current page).
MaxWindow == 1

\* Most branch links in the site-B branch directory.
MaxLinks == 3
\* Clock ticks per second: the resolution of the model's clock.
TicksPerUnit == 2
\* Last tick of the clock the model follows a run to.
MaxTime == 6
\* Longest time, in ticks, one HTTP request takes, and longest pause of
\* the caller between two fetches.
MaxLatency == 2
\* Most list items of a footer drawn for the pagination decision alone.
MaxItems == 3
MaxSeasonLen == 3

\* ----------------------------------------------------------------- strings

\* Python's None, as a value comparable with the strings of the model.
None == <<"<None>">>

IsSpace(c) == c \in {" ", "\t"}

LowerChar(c) ==
    CASE c = "A" -> "a" [] c = "B" -> "b" [] c = "S" -> "s" [] c = "W" -> "w"
      [] OTHER -> c

UpperChar(c) ==
    CASE c = "a" -> "A" [] c = "b" -> "B" [] c = "s" -> "S" [] c = "w" -> "W"
      [] OTHER -> c

\* str.lower()
Lower(s) == [i \in 1..Len(s) |-> LowerChar(s[i])]

\* str.capitalize(): first character upper-cased, the rest lower-cased.
Capitalize(s) ==
    [i \in 1..Len(s) |-> IF i = 1 THEN UpperChar(s[i]) ELSE LowerChar(s[i])]

\* str.strip(): leading and trailing whitespace removed.
Strip(s) ==
    IF \A i \in 1..Len(s) : IsSpace(s[i]) THEN <<>>
    ELSE SubSeq(s,
                CHOOSE i \in 1..Len(s) :
                    ~IsSpace(s[i]) /\ \A j \in 1..(i - 1) : IsSpace(s[j]),
                CHOOSE i \in 1..Len(s) :
                    ~IsSpace(s[i]) /\ \A j \in (i + 1)..Len(s) : IsSpace(s[j]))

\* str.replace(" ", ""): every space character removed (a tab is kept).
RemoveSpaces(s) == SelectSeq(s, LAMBDA c : c # " ")

\* Whether a token of s starts, or ends, at position i.
TokenStart(s, i) == ~IsSpace(s[i]) /\ (i = 1 \/ IsSpace(s[i - 1]))

TokenEnd(s, i) == ~IsSpace(s[i]) /\ (i = Len(s) \/ IsSpace(s[i + 1]))

\* str.split(): the tokens between runs of whitespace.
Split(s) ==
    [k \in 1..Cardinality({i \in 1..Len(s) : TokenStart(s, i)}) |->
        SubSeq(s,
               CHOOSE i \in 1..Len(s) :
                   /\ TokenStart(s, i)
                   /\ Cardinality({j \in 1..(i - 1) : TokenStart(s, j)}) = k - 1,
               CHOOSE i \in 1..Len(s) :
                   /\ TokenEnd(s, i)
                   /\ Cardinality({j \in 1..(i - 1) : TokenEnd(s, j)}) = k - 1)]

\* " ".join(tokens)
Join(tokens) ==
    LET joined[k \in 0..Len(tokens)] ==
            IF k = 0 THEN <<>>
            ELSE IF k = 1 THEN tokens[1]
            ELSE joined[k - 1] \o <<" ">> \o tokens[k]
    IN joined[Len(tokens)]

\* Python's slice seq[0:k]
Slice0(seq, k) == SubSeq(seq, 1, IF k < Len(seq) THEN k ELSE Len(seq))

\* Whether sub occurs in s (Python's  sub in s).
Contains(sub, s) ==
    \E i \in 0..(Len(s) - Len(sub)) : SubSeq(s, i + 1, i + Len(sub)) = sub

Max(a, b) == IF a >= b THEN a ELSE b

Min(a, b) == IF a <= b THEN a ELSE b

\* ---------------------------------------------------------------- the state

VARIABLES
    engine,        \* which scraper the script runs: "Dexel" or "National"
    inputs,        \* the list of size queries, <<1, .., K>>
    pc,            \* position of the run
    error,         \* the exception that ended the run, or "none"
    store,         \* rows of table tyres, in insertion order
    origin,        \* per row of store: the pair, page and card it came from
    log,           \* lines written to tyres.log
    \* site A (the remote site, fixed for a run)
    siteBranches,  \* "Select This Branch" buttons the branch picker shows
    sitePages,     \* result pages of a (branch, size) search
    siteCards,     \* tyre cards per result page
    footerWindow,  \* digit links shown each side of the current page
    activeIsLink,  \* whether the active list item holds a link
    \* DexelScraper.scrape
    branch_count,
    branch,        \* loop variable of  for branch in range(branch_count)
    inputIdx,      \* position in inputs of the inner loop
    contexts,      \* browser contexts created so far
    ctx,           \* the context the current pair runs in (0: none)
    page,          \* result page shown in the current context
    handed,        \* pages handed to parse_html for the current pair
    clicks,        \* pagination links clicked for the current pair
    lastRule,      \* the last pagination decision taken
    temp_context,  \* the probe context (0: none)
    executed,      \* the pairs completed, with their context and pages
    \* site B (the remote site, fixed for a run)
    siteLinks,     \* branch links in the branch directory
    \* NationalTyreExtractor
    linkIdx,       \* position in list_of_branch_sites
    branchPostcodes, \* the postcode texts found on the branch pages read
    postcodes_list,
    postcodes,     \* list(set(postcodes_list)), as handed to extract_data
    artifact,      \* content of postcodes.json (None: not written)
    postcodeIdx,   \* position in postcodes of the outer loop
    natInputIdx,   \* position in inputs of the inner loop
    requests,      \* the HTTP requests issued, with their status
    \* TyreScraper
    now,           \* time.monotonic(), in ticks
    last_request_time,
    lastResult,    \* what the last fetch gave: "soup" or the exception
    lastOutcome,   \* how the last request ended (see Outcomes)
    lastTimed,     \* whether the last fetch was fetch_html_timed
    gapIssued,     \* client: ticks from the previous response to the request
    gapDone,       \* client: ticks between the last two responses (-1: none)
    failedAt,      \* the page and card at which extraction raised
    \* the pagination decision on a footer of any shape
    footer,
    decision,
    \* the normalizers on a result page of any content
    content,       \* the site and the tyre cards of the page
    \* playwright_bythjul_test: the season of one product page
    season_raw,    \* json_data['inProductGroupWithID']
    bythjul_season \* the script's variable season

\* The run's parameters and the remote sites: nothing changes them.
envVars ==
    <<engine, inputs, siteBranches, sitePages, siteCards, footerWindow,
      activeIsLink, siteLinks, content, season_raw>>

dexelVars ==
    <<branch_count, branch, inputIdx, contexts, temp_context, ctx, page,
      handed, clicks, lastRule, executed>>

nationalVars ==
    <<linkIdx, branchPostcodes, postcodes_list, postcodes, artifact,
      postcodeIdx, natInputIdx, requests>>

fetcherVars ==
    <<now, last_request_time, lastResult, lastOutcome, lastTimed>>

clientVars == <<gapIssued, gapDone>>

footerVars == <<footer, decision>>

bythjulVars == <<bythjul_season>>

vars ==
    <<pc, error, failedAt, store, origin, log, envVars, bythjulVars, dexelVars,
      nationalVars, fetcherVars, clientVars, footerVars>>

\* ------------------------------------------------------ ObservationSink

\* Row inserting the season as it was given.
Row_KeepsSeasonCase(website, brand, pattern, size, season, price) ==
    [website_name |-> website, tyre_brand |-> brand, tyre_pattern |-> pattern,
     tyre_size |-> size, seasonality |-> season, price |-> price]

\* The row  add_to_database  inserts: season is lower-cased on insertion.
Row(website, brand, pattern, size, season, price) ==
    [website_name |-> website, tyre_brand |-> brand, tyre_pattern |-> pattern,
     tyre_size |-> size, seasonality |-> Lower(season), price |-> price]

\* The line  add_to_database  logs before inserting.
RowLogLine(website, brand, pattern, size, season, price) ==
    [level |-> "INFO", msg |-> "Adding tyre to database",
     arg |-> <<website, brand, pattern, size, season, price>>]

InfoLine(msg, arg) == [level |-> "INFO", msg |-> msg, arg |-> arg]

\* ------------------------------------------------- site A: RecordNormalizer

\* A tyre card of site A as parse_html reads it: each field is the string
\* found, or None when the element or attribute is absent.
GoodDexelCard ==
    [info_div |-> TRUE,
     brand    |-> <<" ", "a", "B">>,
     pattern  |-> <<"s", "A", " ">>,
     para     |-> <<"1", " ", " ", "2", "\t", "b">>,
     title    |-> <<"w", "B">>,
     prices   |-> [attr |-> "object", minimum_price |-> <<" ", "1", "2">>]]

\* Cards whose structure lacks what parse_html dereferences.
BadDexelCards ==
    { [GoodDexelCard EXCEPT !.info_div = FALSE],
      [GoodDexelCard EXCEPT !.brand = None],
      [GoodDexelCard EXCEPT !.pattern = None],
      [GoodDexelCard EXCEPT !.para = None],
      [GoodDexelCard EXCEPT !.title = None],
      [GoodDexelCard EXCEPT !.prices = [attr |-> "missing", minimum_price |-> None]],
      [GoodDexelCard EXCEPT !.prices = [attr |-> "invalid", minimum_price |-> None]],
      [GoodDexelCard EXCEPT !.prices = [attr |-> "object", minimum_price |-> None]] }

\* The malformed card the engine's pages may hold.
BrokenDexelCard == [GoodDexelCard EXCEPT !.brand = None]

\* Whether the body of parse_html's loop raises on this card (a call on
\* None, json.loads of an absent or malformed payload).
DexelCardRaises(card) ==
    \/ ~card.info_div
    \/ card.brand = None
    \/ card.pattern = None
    \/ card.para = None
    \/ card.title = None
    \/ card.prices.attr # "object"
    \/ card.prices.minimum_price = None

\* DexelObservation joining every token of the size text.
DexelObservation_AllTokens(card) ==
    [brand   |-> Capitalize(Strip(card.brand)),
     pattern |-> Capitalize(Strip(card.pattern)),
     size    |-> Join(Split(Strip(card.para))),
     season  |-> Capitalize(Strip(card.title)),
     price   |-> Strip(card.prices.minimum_price)]

\* The arguments parse_html passes to add_to_database for one card.
DexelObservation(card) ==
    [brand   |-> Capitalize(Strip(card.brand)),
     pattern |-> Capitalize(Strip(card.pattern)),
     size    |-> Join(Slice0(Split(Strip(card.para)), 2)),
     season  |-> Capitalize(Strip(card.title)),
     price   |-> Strip(card.prices.minimum_price)]

\* ParseHtml skipping a card that raises and going on with the next.
ParseHtml_SkipsCard(cards) ==
    LET sound == SelectSeq(cards, LAMBDA c : ~DexelCardRaises(c))
    IN [obs |-> [i \in 1..Len(sound) |-> DexelObservation(sound[i])],
        raised |-> Len(sound) < Len(cards)]

\* ParseHtml handing nothing to add_to_database when a card of the page
\* raises.
ParseHtml_AllOrNothing(cards) ==
    LET sound == SelectSeq(cards, LAMBDA c : ~DexelCardRaises(c))
    IN [obs |-> IF Len(sound) < Len(cards) THEN <<>>
                ELSE [i \in 1..Len(cards) |-> DexelObservation(cards[i])],
        raised |-> Len(sound) < Len(cards)]

\* parse_html: the observations of the cards before the first card that
\* raises, and whether one raised.
ParseHtml(cards) ==
    LET ok(i) == \A j \in 1..i : ~DexelCardRaises(cards[j])
    IN [obs |-> [i \in 1..Cardinality({i \in 1..Len(cards) : ok(i)}) |->
                    DexelObservation(cards[i])],
        raised |-> ~ok(Len(cards))]

\* ------------------------------------------- site A: the pagination footer

LastText == <<"L", "a", "s", "t">>

Item(link, text, target, cls) ==
    [link |-> link, text |-> text, page |-> target, cls |-> cls]

\* The list items of div.custom-pagination on page p of P, as the comments
\* of scrape_branch describe the footer: empty for a single page; a trailing
\* "Last >" link while page p + W < P; otherwise the next-page link last; on
\* page P the active item last.
Footer(p, P, W, act) ==
    IF P <= 1 THEN <<>>
    ELSE
      LET lo == Max(1, p - W)
          hi == Min(P, p + W)
          first == IF p > W + 1
                   THEN <<Item(TRUE, <<"F", "i", "r", "s", "t">>, 1, "")>>
                   ELSE <<>>
          prev == IF p # 1 THEN <<Item(TRUE, <<"<">>, p - 1, "")>> ELSE <<>>
          digits == [i \in 1..(hi - lo + 1) |->
                       LET q == lo + i - 1
                       IN Item(q # p \/ act, <<ToString(q)>>, q,
                               IF q = p THEN "active" ELSE "")]
          next == IF p < P THEN <<Item(TRUE, <<">">>, p + 1, "")>> ELSE <<>>
          last == IF p + W < P
                  THEN <<Item(TRUE, <<" ">> \o LastText \o <<" ", ">">>, P, "")>>
                  ELSE <<>>
      IN first \o prev \o digits \o next \o last

\* pagination_div.locator('a'): the links of the footer, in document order.
Links(ft) == SelectSeq(ft, LAMBDA it : it.link)

\* locator.nth(i) over n matches, as a 1-based position (0: no such match).
\* Playwright counts from 0; -1 is the last match.
NthIndex(n, i) ==
    IF i >= 0 THEN (IF i < n THEN i + 1 ELSE 0)
    ELSE (IF n + i >= 0 THEN n + i + 1 ELSE 0)

\* PaginationStep clicking the "Last" link itself when it is shown.
PaginationStep_ClicksLast(ft) ==
    LET links == Links(ft)
        n == Len(links)
    IN IF n = 0
       THEN [rule |-> "zero_links", click |-> 0]
       ELSE IF Contains(LastText, Strip(links[n].text))
       THEN [rule |-> "jump_to_last", click |-> NthIndex(n, n - 1)]
       ELSE IF ft[Len(ft)].cls = "active"
       THEN [rule |-> "active_last", click |-> 0]
       ELSE [rule |-> "last_link", click |-> n]

\* PaginationStep taking a footer that shows "Last" for the end of the
\* pages.
PaginationStep_StopsAtLast(ft) ==
    LET links == Links(ft)
        n == Len(links)
    IN IF n = 0
       THEN [rule |-> "zero_links", click |-> 0]
       ELSE IF Contains(LastText, Strip(links[n].text))
       THEN [rule |-> "active_last", click |-> 0]
       ELSE IF ft[Len(ft)].cls = "active"
       THEN [rule |-> "active_last", click |-> 0]
       ELSE [rule |-> "last_link", click |-> n]

\* PaginationStep without the test for a footer with no links: it goes on
\* to click the last link, which does not exist.
PaginationStep_NoZeroCheck(ft) ==
    LET links == Links(ft)
        n == Len(links)
    IN IF n > 0 /\ Contains(LastText, Strip(links[n].text))
       THEN [rule |-> "jump_to_last", click |-> NthIndex(n, n - 2)]
       ELSE IF ft # <<>> /\ ft[Len(ft)].cls = "active"
       THEN [rule |-> "active_last", click |-> 0]
       ELSE [rule |-> "last_link", click |-> n]

\* PaginationStep without the test for the active item being last.
PaginationStep_ActiveIgnored(ft) ==
    LET links == Links(ft)
        n == Len(links)
    IN IF n = 0
       THEN [rule |-> "zero_links", click |-> 0]
       ELSE IF Contains(LastText, Strip(links[n].text))
       THEN [rule |-> "jump_to_last", click |-> NthIndex(n, n - 2)]
       ELSE [rule |-> "last_link", click |-> n]

\* PaginationStep testing for the active item before the "Last" link.
PaginationStep_ActiveFirst(ft) ==
    LET links == Links(ft)
        n == Len(links)
    IN IF n = 0
       THEN [rule |-> "zero_links", click |-> 0]
       ELSE IF ft[Len(ft)].cls = "active"
       THEN [rule |-> "active_last", click |-> 0]
       ELSE IF Contains(LastText, Strip(links[n].text))
       THEN [rule |-> "jump_to_last", click |-> NthIndex(n, n - 2)]
       ELSE [rule |-> "last_link", click |-> n]

\* The decision at the end of one iteration of scrape_branch's loop: the
\* rule that fires and the 1-based position of the link clicked (0: none).
PaginationStep(ft) ==
    LET links == Links(ft)
        n == Len(links)
    IN IF n = 0
       THEN [rule |-> "zero_links", click |-> 0]
       ELSE IF Contains(LastText, Strip(links[n].text))
       THEN [rule |-> "jump_to_last", click |-> NthIndex(n, n - 2)]
       ELSE IF ft[Len(ft)].cls = "active"
       THEN [rule |-> "active_last", click |-> 0]
       ELSE [rule |-> "last_link", click |-> n]

\* ------------------------------------------------------ the append-only store

\* InsertRow leaving out a row the table already holds.
InsertRow_Dedup(rows, website, o) ==
    LET row == Row(website, o.brand, o.pattern, o.size, o.season, o.price)
    IN IF \E i \in DOMAIN rows : rows[i] = row THEN rows
       ELSE Append(rows, row)

\* add_to_database's INSERT and commit: one row appended.
InsertRow(rows, website, o) ==
    Append(rows, Row(website, o.brand, o.pattern, o.size, o.season, o.price))

\* add_to_database called once per observation, in order.
InsertAll(rows, website, obs) ==
    LET after[k \in 0..Len(obs)] ==
            IF k = 0 THEN rows ELSE InsertRow(after[k - 1], website, obs[k])
    IN after[Len(obs)]

RowLogLines(website, obs) ==
    [i \in 1..Len(obs) |->
        RowLogLine(website, obs[i].brand, obs[i].pattern, obs[i].size,
                   obs[i].season, obs[i].price)]

\* Where the rows of one page come from: the pair (a branch or a postcode,
\* and a size query), the page and the card.
Origins(site, place, query, pageNo, req, n) ==
    [i \in 1..n |->
        [site |-> site, place |-> place, query |-> query, page |-> pageNo,
         req |-> req, card |-> i]]

\* --------------------------------------------------- site A: DexelScraper

NoStep ==
    [rule |-> "none", from |-> 0, links |-> 0, click |-> 0, to |-> 0,
     pc |-> "none", error |-> "none"]

NoFailure == [place |-> -1, query |-> 0, page |-> 0, card |-> 0]

\* browser.new_context() followed by context.new_page(): a context with no
\* cookies, so no branch remembered.
FreshContext(role) == [open |-> TRUE, selected |-> -1, role |-> role]

\* PairContext keeping one context for all the pairs.
PairContext_Reused(cs) ==
    IF cs[Len(cs)].role = "pair"
    THEN [contexts |-> [cs EXCEPT ![Len(cs)].open = TRUE], ctx |-> Len(cs)]
    ELSE [contexts |-> Append(cs, FreshContext("pair")), ctx |-> Len(cs) + 1]

\* The context a (branch, size) pair runs in: scrape creates one per pair.
PairContext(cs) ==
    [contexts |-> Append(cs, FreshContext("pair")), ctx |-> Len(cs) + 1]

\* scrape, lines 220-226: launch the browser, open the probe context and
\* navigate it to the branch picker with the first size query.
DexelProbeOpen ==
    /\ engine = "Dexel" /\ pc = "start"
    /\ contexts' = Append(contexts, FreshContext("probe"))
    /\ temp_context' = Len(contexts) + 1
    /\ pc' = "probe"
    /\ UNCHANGED <<error, failedAt, store, origin, log, envVars, bythjulVars, branch_count,
                   branch, inputIdx, ctx, page, handed, clicks, lastRule,
                   executed, nationalVars, fetcherVars, clientVars, footerVars>>

\* DexelProbeCount leaving the probe context open.
DexelProbeCount_LeavesOpen ==
    /\ pc = "probe"
    /\ branch_count' = siteBranches
    /\ branch' = 0
    /\ inputIdx' = 1
    /\ pc' = "next_pair"
    /\ UNCHANGED <<error, failedAt, store, origin, log, envVars, bythjulVars,
                   contexts, temp_context, ctx, page, handed, clicks,
                   lastRule, executed, nationalVars, fetcherVars, clientVars,
                   footerVars>>

\* scrape, lines 227-228: count the branch buttons, close the probe.
DexelProbeCount ==
    /\ pc = "probe"
    /\ branch_count' = siteBranches
    /\ contexts' = [contexts EXCEPT ![temp_context].open = FALSE]
    /\ branch' = 0
    /\ inputIdx' = 1
    /\ pc' = "next_pair"
    /\ UNCHANGED <<error, failedAt, store, origin, log, envVars, bythjulVars, temp_context,
                   ctx, page, handed, clicks, lastRule, executed,
                   nationalVars, fetcherVars, clientVars, footerVars>>

\* scrape, lines 230-236: the next (branch, size) pair gets a context and is
\* navigated to the branch picker.
DexelPairOpen ==
    /\ pc = "next_pair" /\ branch < branch_count
    /\ LET s == PairContext(contexts)
       IN /\ contexts' = s.contexts
          /\ ctx' = s.ctx
    /\ log' = log
              \o (IF inputIdx = 1
                  THEN <<InfoLine("Scraping branch number", branch)>>
                  ELSE <<>>)
              \o <<InfoLine("Scraping new input", inputs[inputIdx])>>
    /\ pc' = "branch_page"
    /\ UNCHANGED <<error, failedAt, store, origin, envVars, bythjulVars, branch_count,
                   branch, inputIdx, temp_context, page, handed, clicks,
                   lastRule, executed, nationalVars, fetcherVars, clientVars, footerVars>>

\* scrape_branch, lines 165-168: select the branch by ordinal; the first
\* result page loads.
DexelSelectBranch ==
    /\ pc = "branch_page"
    /\ contexts' = [contexts EXCEPT ![ctx].selected = branch]
    /\ page' = 1
    /\ handed' = <<>>
    /\ clicks' = 0
    /\ lastRule' = NoStep
    /\ pc' = "page_loaded"
    /\ UNCHANGED <<error, failedAt, store, origin, log, envVars, bythjulVars, branch_count,
                   branch, inputIdx, temp_context, ctx, executed,
                   nationalVars, fetcherVars, clientVars, footerVars>>

\* The cards of the page shown: n cards, the f-th (if f > 0) one whose
\* structure the extraction does not expect.
PageCards(n, f, good, bad) == [i \in 1..n |-> IF i = f THEN bad ELSE good]

\* parse_html on each result page the site may serve: n cards, of which
\* card f is malformed (f = 0: none is).
DexelPageParses ==
    [n \in 0..MaxCards |->
        [f \in 0..n |->
            ParseHtml(PageCards(n, f, GoodDexelCard, BrokenDexelCard))]]

\* What one call of parse_html(page.content()) does to the run, r being
\* what parse_html makes of the page and f the page's malformed card.
DexelParsed(r, f) ==
    LET q == inputs[inputIdx]
    IN /\ handed' = Append(handed, page)
       /\ store' = InsertAll(store, "Dexel", r.obs)
       /\ log' = log \o RowLogLines("Dexel", r.obs)
       /\ origin' = origin \o Origins("Dexel", branch, q, page, 0, Len(r.obs))
       /\ pc' = IF r.raised THEN "aborted" ELSE "parsed"
       /\ error' = IF r.raised THEN "ExtractionFailure" ELSE error
       /\ failedAt' = IF r.raised
                      THEN [place |-> branch, query |-> q, page |-> page,
                            card |-> f]
                      ELSE failedAt
       /\ UNCHANGED <<envVars, bythjulVars, branch_count, branch, inputIdx, contexts,
                      temp_context, ctx, page, clicks, lastRule, executed,
                      nationalVars, fetcherVars, clientVars, footerVars>>

\* scrape_branch, lines 172-173, and parse_html: the page is handed to the
\* normalizer, one row committed per card; a card that raises ends the run,
\* since nothing up to the top of the script catches the exception.
DexelParsePage ==
    /\ pc = "page_loaded"
    /\ \E f \in 0..siteCards :
         DexelParsed(DexelPageParses[siteCards][f], f)

\* What lines 178-189 of scrape_branch do on a footer while page cur is
\* shown: the rule, the link clicked, the page it leads to, and where the
\* loop stands afterwards. A click on a link that does not exist times out.
PaginateOutcome(ft, cur) ==
    LET links == Links(ft)
        d == PaginationStep(ft)
        stop == d.rule \in {"zero_links", "active_last"}
    IN [rule |-> d.rule, from |-> cur, links |-> Len(links),
        click |-> d.click,
        to |-> IF stop \/ d.click = 0 THEN cur ELSE links[d.click].page,
        pc |-> IF stop THEN "done"
               ELSE IF d.click = 0 THEN "aborted" ELSE "page_loaded",
        error |-> IF ~stop /\ d.click = 0 THEN "TimeoutError" ELSE "none"]

\* Lines 178-189 on each footer the site may show: page p of P, window W,
\* the active item a link or not.
SiteOutcomes ==
    [P \in 1..MaxPages |-> [W \in 1..MaxWindow |-> [act \in BOOLEAN |->
        [p \in 1..P |-> PaginateOutcome(Footer(p, P, W, act), p)]]]]

\* scrape_branch, lines 178-189: the pagination decision and the click.
DexelPaginate ==
    /\ pc = "parsed"
    /\ LET o == SiteOutcomes[sitePages][footerWindow][activeIsLink][page]
       IN /\ lastRule' = o
          /\ log' = IF o.rule = "zero_links"
                    THEN Append(log, InfoLine("There is only one page",
                                              inputs[inputIdx]))
                    ELSE log
          /\ page' = o.to
          /\ clicks' = IF o.to = page THEN clicks ELSE clicks + 1
          /\ pc' = o.pc
          /\ error' = IF o.error = "none" THEN error ELSE o.error
    /\ UNCHANGED <<failedAt, store, origin, envVars, bythjulVars, branch_count, branch,
                   inputIdx, contexts, temp_context, ctx, handed, executed,
                   nationalVars, fetcherVars, clientVars, footerVars>>

\* scrape, line 238 and the loop heads: close the pair's context and move
\* to the next size query, or to the next branch.
DexelPairClose ==
    /\ pc = "done"
    /\ contexts' = [contexts EXCEPT ![ctx].open = FALSE]
    /\ executed' = Append(executed,
                          [branch |-> branch, query |-> inputs[inputIdx],
                           ctx |-> ctx, pages |-> handed, clicks |-> clicks,
                           rule |-> lastRule.rule])
    /\ IF inputIdx < Len(inputs)
       THEN inputIdx' = inputIdx + 1 /\ branch' = branch
       ELSE inputIdx' = 1 /\ branch' = branch + 1
    /\ pc' = "next_pair"
    /\ UNCHANGED <<error, failedAt, store, origin, log, envVars, bythjulVars, branch_count,
                   temp_context, ctx, page, handed, clicks, lastRule,
                   nationalVars, fetcherVars, clientVars, footerVars>>

\* scrape, lines 239-240: all pairs done.
DexelFinish ==
    /\ pc = "next_pair" /\ branch >= branch_count
    /\ log' = Append(log, InfoLine("Scraping complete.", 0))
    /\ pc' = "finished"
    /\ UNCHANGED <<error, failedAt, store, origin, envVars, bythjulVars, dexelVars,
                   nationalVars, fetcherVars, clientVars, footerVars>>

\* ------------------------------------------------------------ TyreScraper

\* last_request_time = None
NoTime == -1

\* How a GET can end: a 2xx response, a response with another status, or
\* no response at all (requests.get raises).
Outcomes == {"ok", "http_error", "no_response"}

\* Stamp taking the time the request was issued.
Stamp_AtIssue(lrt, issued, done, outcome) ==
    IF outcome = "no_response" THEN lrt ELSE issued

\* fetch_html, line 64: the timestamp after a request issued at  issued
\* that ended at  done : set once requests.get has returned a response.
Stamp(lrt, issued, done, outcome) ==
    IF outcome = "no_response" THEN lrt ELSE done

\* FetchResult without raise_for_status.
FetchResult_IgnoresStatus(outcome) ==
    IF outcome = "no_response" THEN "ConnectionError" ELSE "soup"

\* fetch_html, lines 63-68: what the caller gets, the parsed page or the
\* exception raised (by requests.get, or by raise_for_status).
FetchResult(outcome) ==
    CASE outcome = "ok" -> "soup"
      [] outcome = "http_error" -> "HTTPError"
      [] OTHER -> "ConnectionError"

\* fetch_html called at time t.
fetch_html(lrt, t, latency, outcome) ==
    [issued |-> t, done |-> t + latency, outcome |-> outcome,
     lrt |-> Stamp(lrt, t, t + latency, outcome),
     result |-> FetchResult(outcome)]

\* fetch_html_timed, lines 81-84: how long the call sleeps before the
\* request; sleep may overrun by  over  ticks.
SleepTime(lrt, t, over) ==
    IF lrt # NoTime /\ lrt # 0
    THEN (IF t - lrt <= TicksPerUnit
          THEN (TicksPerUnit - (t - lrt)) + over
          ELSE 0)
    ELSE 0

\* fetch_html_timed called at time t: any RequestException is re-raised
\* as RuntimeError.
fetch_html_timed(lrt, t, over, latency, outcome) ==
    LET r == fetch_html(lrt, t + SleepTime(lrt, t, over), latency, outcome)
    IN [r EXCEPT !.result = IF r.result = "soup" THEN "soup"
                            ELSE "RuntimeError"]

\* The fetcher's state after a fetch that ended as r.
Fetched(r, timed) ==
    /\ now' = r.done
    /\ last_request_time' = r.lrt
    /\ lastResult' = r.result
    /\ lastOutcome' = r.outcome
    /\ lastTimed' = timed

\* What is observed of a fetch that ended as r: the call before it
\* ended at the time  now  holds; the gaps are those to its response, if
\* it got one.
Observed(r) ==
    LET prevResponded == lastOutcome \in {"ok", "http_error"}
    IN /\ gapIssued' = IF prevResponded THEN r.issued - now ELSE -1
       /\ gapDone' = IF prevResponded /\ r.outcome # "no_response"
                     THEN r.done - now ELSE -1

\* ---------------------------------------- site B: NationalTyreExtractor

\* A tyre card of site B as extract_data reads it: each field is the
\* string found, or None when the attribute or element is absent.
GoodNationalCard ==
    [brand   |-> <<"A", "b", " ">>,
     pattern |-> <<" ", "s", "A">>,
     size    |-> <<"1", " ", "2", " ", "b">>,
     season  |-> <<"S", "w">>,
     price   |-> <<"1", "2">>]

BadNationalCards ==
    { [GoodNationalCard EXCEPT !.brand = None],
      [GoodNationalCard EXCEPT !.pattern = None],
      [GoodNationalCard EXCEPT !.size = None],
      [GoodNationalCard EXCEPT !.season = None],
      [GoodNationalCard EXCEPT !.price = None] }

\* The malformed card the engine's pages may hold.
BrokenNationalCard == [GoodNationalCard EXCEPT !.pattern = None]

\* Whether lines 296-302 raise on this card (a call on None).
NationalCardRaises(card) ==
    \/ card.brand = None
    \/ card.pattern = None
    \/ card.size = None
    \/ card.season = None
    \/ card.price = None

\* The arguments extract_data passes to add_to_database for one card.
NationalObservation(card) ==
    [brand   |-> Strip(card.brand),
     pattern |-> Strip(card.pattern),
     size    |-> Strip(card.size),
     season  |-> Strip(card.season),
     price   |-> Strip(card.price)]

\* extract_data's inner loop over the cards of one result page: the
\* observations of the cards before the first that raises.
ExtractCards(cards) ==
    LET ok(i) == \A j \in 1..i : ~NationalCardRaises(cards[j])
    IN [obs |-> [i \in 1..Cardinality({i \in 1..Len(cards) : ok(i)}) |->
                    NationalObservation(cards[i])],
        raised |-> ~ok(Len(cards))]

\* The postcode text of a branch page, as found in span[itemprop=postalCode].
RawPostcodes ==
    { <<"a", " ", "b">>, <<" ", "a", "b", " ">>, <<"s", "\t", "w", " ">> }

\* find_branch_postcodes, lines 271-272.
NormalizePostcode(raw) == RemoveSpaces(Strip(raw))

Range(seq) == {seq[i] : i \in DOMAIN seq}

\* ListOfSet returning the list as it is, duplicates included.
ListOfSet_KeepsDuplicates(xs) == {xs}

\* list(set(xs)): the distinct elements, in an order Python does not fix.
ListOfSet(xs) ==
    LET S == Range(xs)
    IN {f \in [1..Cardinality(S) -> S] : \A i, j \in DOMAIN f :
                                             i # j => f[i] # f[j]}

Latencies == 0..MaxLatency

\* find_branch_postcodes, lines 262-266: fetch the branch directory.
NatDirectory ==
    /\ engine = "National" /\ pc = "start"
    /\ \E latency \in Latencies : \E outcome \in Outcomes :
         LET r == fetch_html(last_request_time, now, latency, outcome)
         IN /\ r.done <= MaxTime
            /\ Fetched(r, FALSE)
            /\ Observed(r)
            /\ requests' = Append(requests, [url |-> <<"branches">>,
                                             outcome |-> outcome])
            /\ pc' = IF r.result = "soup" THEN "branches" ELSE "aborted"
            /\ error' = IF r.result = "soup" THEN error ELSE r.result
    /\ log' = Append(log,
                     InfoLine("Starting National postcode extraction.", 0))
    /\ linkIdx' = 1
    /\ postcodes_list' = <<>>
    /\ UNCHANGED <<failedAt, store, origin, envVars, bythjulVars, dexelVars,
                   branchPostcodes, postcodes, artifact, postcodeIdx,
                   natInputIdx, footerVars>>

\* find_branch_postcodes, lines 269-274: fetch one branch page and take
\* its postcode.
NatBranchPage ==
    /\ pc = "branches" /\ linkIdx <= siteLinks
    /\ \E latency \in Latencies : \E outcome \in Outcomes :
       \E raw \in RawPostcodes \cup {None} :
         LET r == fetch_html(last_request_time, now, latency, outcome)
             got == r.result = "soup"
         IN /\ r.done <= MaxTime
            /\ Fetched(r, FALSE)
            /\ Observed(r)
            /\ requests' = Append(requests, [url |-> <<"branch", linkIdx>>,
                                             outcome |-> outcome])
            /\ pc' = IF got /\ raw # None THEN "branches" ELSE "aborted"
            /\ error' = IF ~got THEN r.result
                        ELSE IF raw = None THEN "ExtractionFailure"
                        ELSE error
            /\ postcodes_list' = IF got /\ raw # None
                                 THEN Append(postcodes_list,
                                             NormalizePostcode(raw))
                                 ELSE postcodes_list
            /\ branchPostcodes' = IF got /\ raw # None
                                  THEN branchPostcodes \cup {raw}
                                  ELSE branchPostcodes
            /\ linkIdx' = IF got /\ raw # None THEN linkIdx + 1 ELSE linkIdx
    /\ UNCHANGED <<failedAt, store, origin, log, envVars, bythjulVars, dexelVars,
                   postcodes, artifact, postcodeIdx, natInputIdx, footerVars>>

\* find_branch_postcodes, lines 276-278, and scrape, lines 312-314: the
\* distinct postcodes, written to postcodes.json.
NatDiscovered ==
    /\ pc = "branches" /\ linkIdx > siteLinks
    /\ log' = Append(log, InfoLine("postcodes extracted.",
                                   Len(postcodes_list)))
    /\ \E order \in ListOfSet(postcodes_list) :
         /\ postcodes' = order
         /\ artifact' = order
    /\ postcodes_list' = <<>>
    /\ postcodeIdx' = 1
    /\ natInputIdx' = 1
    /\ pc' = "extract"
    /\ UNCHANGED <<error, failedAt, store, origin, envVars, bythjulVars, dexelVars,
                   linkIdx, branchPostcodes, requests, fetcherVars, clientVars,
                   footerVars>>

\* extract_data's inner loop on every page the site may serve: n cards, the
\* f-th malformed (0: none).
NationalPageParses ==
    [n \in 0..MaxCards |->
        [f \in 0..n |->
            ExtractCards(PageCards(n, f, GoodNationalCard,
                                   BrokenNationalCard))]]

\* What one iteration of extract_data's inner loop does once the fetch has
\* ended as r and the cards of the page, the f-th malformed, gave x.
NatSearched(r, x, f) ==
    LET got == r.result = "soup"
        q == inputs[natInputIdx]
        pcode == postcodes[postcodeIdx]
        obs == IF got THEN x.obs ELSE <<>>
        raised == got /\ x.raised
    IN /\ r.done <= MaxTime
       /\ Fetched(r, FALSE)
       /\ Observed(r)
       /\ requests' = Append(requests, [url |-> <<"tyres-search", q, pcode>>,
                                        outcome |-> r.outcome])
       /\ log' = log
                 \o (IF natInputIdx = 1
                     THEN <<InfoLine("Scraping postcode", pcode)>>
                     ELSE <<>>)
                 \o <<InfoLine("Scraping inputs", q)>>
                 \o RowLogLines("National", obs)
       /\ store' = InsertAll(store, "National", obs)
       /\ origin' = origin \o Origins("National", pcode, q, 1,
                                      Len(requests) + 1, Len(obs))
       /\ pc' = IF got /\ ~raised THEN "extract" ELSE "aborted"
       /\ error' = IF ~got THEN r.result
                   ELSE IF raised THEN "ExtractionFailure"
                   ELSE error
       /\ failedAt' = IF raised
                      THEN [place |-> pcode, query |-> q, page |-> 1,
                            card |-> f]
                      ELSE failedAt
       /\ IF got /\ ~raised
          THEN IF natInputIdx < Len(inputs)
               THEN natInputIdx' = natInputIdx + 1
                    /\ postcodeIdx' = postcodeIdx
               ELSE natInputIdx' = 1 /\ postcodeIdx' = postcodeIdx + 1
          ELSE UNCHANGED <<natInputIdx, postcodeIdx>>
       /\ UNCHANGED <<envVars, bythjulVars, dexelVars, linkIdx, branchPostcodes,
                      postcodes_list, postcodes, artifact, footerVars>>

\* extract_data, lines 287-304: one (postcode, size) pair: fetch the
\* search page and commit a row per card; a card that raises, or a failed
\* fetch, ends the run, since nothing catches the exception.
NatSearch ==
    /\ pc = "extract" /\ postcodeIdx <= Len(postcodes)
    /\ \E latency \in Latencies :
         \/ \E outcome \in Outcomes \ {"ok"} :
              NatSearched(fetch_html(last_request_time, now, latency, outcome),
                          NationalPageParses[0][0], 0)
         \/ \E f \in 0..siteCards :
              NatSearched(fetch_html(last_request_time, now, latency, "ok"),
                          NationalPageParses[siteCards][f], f)

\* extract_data returns: every pair done.
NatFinish ==
    /\ pc = "extract" /\ postcodeIdx > Len(postcodes)
    /\ pc' = "finished"
    /\ UNCHANGED <<error, failedAt, store, origin, log, envVars, bythjulVars, dexelVars,
                   nationalVars, fetcherVars, clientVars, footerVars>>

\* ------------------------------------------------- a client of the fetcher

\* A caller of the rate-limited fetch: it pauses, calls fetch_html_timed,
\* and goes on whatever the call gave.
ClientFetchTimed ==
    /\ engine = "Fetcher"
    /\ \E pause \in Latencies : \E over \in 0..1 :
       \E latency \in Latencies : \E outcome \in Outcomes :
         LET r == fetch_html_timed(last_request_time, now + pause, over,
                                   latency, outcome)
         IN /\ r.done <= MaxTime
            /\ Fetched(r, TRUE)
            /\ Observed(r)
    /\ UNCHANGED <<pc, error, failedAt, store, origin, log, envVars, bythjulVars,
                   dexelVars, nationalVars, footerVars>>

\* The same caller using fetch_html directly.
ClientFetch ==
    /\ engine = "Fetcher"
    /\ \E pause \in Latencies :
       \E latency \in Latencies : \E outcome \in Outcomes :
         LET r == fetch_html(last_request_time, now + pause, latency, outcome)
         IN /\ r.done <= MaxTime
            /\ Fetched(r, FALSE)
            /\ Observed(r)
    /\ UNCHANGED <<pc, error, failedAt, store, origin, log, envVars, bythjulVars,
                   dexelVars, nationalVars, footerVars>>

\* ------------------------------------- the pagination decision on any footer

FooterTexts == { LastText \o <<" ", ">">>, <<"2">>, <<">">> }

FooterItems ==
    { Item(l, t, 2, c) : l \in BOOLEAN, t \in FooterTexts, c \in {"active", ""} }

Footers == UNION { [1..n -> FooterItems] : n \in 0..MaxItems }

\* One iteration's pagination decision (scrape_branch, lines 178-189) on
\* the footer drawn, with page 1 shown.
FooterDecide ==
    /\ engine = "Footer" /\ pc = "parsed"
    /\ decision' = PaginateOutcome(footer, 1)
    /\ pc' = decision'.pc
    /\ UNCHANGED <<error, failedAt, store, origin, log, envVars, bythjulVars, dexelVars,
                   nationalVars, fetcherVars, clientVars, footer>>

\* ------------------------------------------- the normalizers on any page

\* Cards whose fields are present and hold nothing but whitespace.
BlankDexelCards ==
    { [GoodDexelCard EXCEPT !.brand = <<" ">>],
      [GoodDexelCard EXCEPT !.pattern = <<>>],
      [GoodDexelCard EXCEPT !.para = <<" ", "\t">>],
      [GoodDexelCard EXCEPT !.title = <<" ">>],
      [GoodDexelCard EXCEPT !.prices = [attr |-> "object", minimum_price |-> <<" ">>]] }

\* Cards that differ from GoodDexelCard in the text of one field.
OtherDexelCards ==
    { [GoodDexelCard EXCEPT !.para = <<"1">>],
      [GoodDexelCard EXCEPT !.title = <<"W", "b">>],
      [GoodDexelCard EXCEPT !.title = <<" ", "W", "B", " ">>] }

DexelCards ==
    {GoodDexelCard} \cup BadDexelCards \cup BlankDexelCards \cup OtherDexelCards

BlankNationalCards ==
    { [GoodNationalCard EXCEPT !.brand = <<" ">>],
      [GoodNationalCard EXCEPT !.pattern = <<"\t">>],
      [GoodNationalCard EXCEPT !.size = <<>>],
      [GoodNationalCard EXCEPT !.season = <<" ">>],
      [GoodNationalCard EXCEPT !.price = <<" ", " ">>] }

NationalCards ==
    {GoodNationalCard} \cup BadNationalCards \cup BlankNationalCards

\* What a normalizer's loop does with a page: the rows and log lines of the
\* cards before the first that raises, then the exception if one raised.
Normalized(site, r) ==
    /\ store' = InsertAll(store, site, r.obs)
    /\ log' = log \o RowLogLines(site, r.obs)
    /\ origin' = origin \o Origins(site, 0, 1, 1, 0, Len(r.obs))
    /\ pc' = IF r.raised THEN "aborted" ELSE "parsed"
    /\ error' = IF r.raised THEN "ExtractionFailure" ELSE error
    /\ failedAt' = IF r.raised
                   THEN [place |-> 0, query |-> 1, page |-> 1,
                         card |-> Len(r.obs) + 1]
                   ELSE failedAt
    /\ UNCHANGED <<envVars, bythjulVars, dexelVars, nationalVars, fetcherVars, clientVars,
                   footerVars>>

\* DexelScraper.parse_html on the page drawn.
ParsePage ==
    /\ engine = "Normalizer" /\ pc = "page_loaded"
    /\ content.site = "Dexel"
    /\ Normalized("Dexel", ParseHtml(content.cards))

\* The inner loop of NationalTyreExtractor.extract_data on the page drawn.
ExtractPage ==
    /\ engine = "Normalizer" /\ pc = "page_loaded"
    /\ content.site = "National"
    /\ Normalized("National", ExtractCards(content.cards))

\* ------------------------------------- playwright_bythjul_test: the season

Vinterdack == <<"V", "i", "n", "t", "e", "r", "d", "ä", "c", "k">>

Sommardack == <<"S", "o", "m", "m", "a", "r", "d", "ä", "c", "k">>

Winter == <<"W", "i", "n", "t", "e", "r">>

Summer == <<"S", "u", "m", "m", "e", "r">>

\* SeasonMapping turning a Swedish product group into the other one.
SeasonMapping_Chained(s) ==
    IF s = Vinterdack THEN Sommardack
    ELSE IF s = Sommardack THEN Summer
    ELSE s

\* Lines 71-74: the two Swedish product groups are put into English, any
\* other value is kept.
SeasonMapping(s) ==
    IF s = Vinterdack THEN Winter
    ELSE IF s = Sommardack THEN Summer
    ELSE s

SeasonChars == {" ", "w", "W", "b"}

\* The product groups a page may name: the four words of the mapping and
\* every short text.
Seasons ==
    {Vinterdack, Sommardack, Winter, Summer}
      \cup UNION { [1..n -> SeasonChars] : n \in 0..MaxSeasonLen }

\* The mapping applied to the season read from the page, and once more to
\* its own result.
MapSeason ==
    /\ engine = "Bythjul" /\ pc \in {"season_read", "season_mapped"}
    /\ bythjul_season' = SeasonMapping(bythjul_season)
    /\ pc' = IF pc = "season_read" THEN "season_mapped" ELSE "season_remapped"
    /\ UNCHANGED <<error, failedAt, store, origin, log, envVars, dexelVars,
                   nationalVars, fetcherVars, clientVars, footerVars>>

\* ------------------------------------------------------- specifications

RunIdle ==
    /\ error = "none" /\ failedAt = NoFailure
    /\ store = <<>> /\ origin = <<>> /\ log = <<>>

DexelIdle ==
    /\ branch_count = 0 /\ branch = 0 /\ inputIdx = 1
    /\ contexts = <<>> /\ temp_context = 0 /\ ctx = 0
    /\ page = 0 /\ handed = <<>> /\ clicks = 0 /\ lastRule = NoStep
    /\ executed = <<>>

NationalIdle ==
    /\ linkIdx = 1 /\ branchPostcodes = {}
    /\ postcodes_list = <<>> /\ postcodes = <<>>
    /\ artifact = None /\ postcodeIdx = 1 /\ natInputIdx = 1
    /\ requests = <<>>

\* time.monotonic() counts from an arbitrary point in the past: it is
\* positive when the script starts.
FetcherIdle ==
    /\ now = 1
    /\ last_request_time = NoTime
    /\ lastResult = "none" /\ lastOutcome = "none" /\ lastTimed = FALSE
    /\ gapIssued = -1 /\ gapDone = -1

FooterIdle == footer = <<>> /\ decision = NoStep

NoContent == [site |-> "none", cards |-> <<>>]

BythjulIdle == season_raw = None /\ bythjul_season = None

NoSiteA ==
    /\ siteBranches = 0 /\ sitePages = 1 /\ footerWindow = 1
    /\ activeIsLink = FALSE

\* The script with  dexel_tyre_scraper_instance.scrape(inputs)  enabled.
InitDexel ==
    /\ engine = "Dexel" /\ pc = "start"
    /\ \E k \in 1..MaxInputs : inputs = [i \in 1..k |-> i]
    /\ siteBranches \in 1..MaxBranches
    /\ sitePages \in 1..MaxPages
    /\ siteCards \in 0..MaxCards
    /\ footerWindow \in 1..MaxWindow
    /\ activeIsLink \in BOOLEAN
    /\ siteLinks = 0
    /\ RunIdle /\ DexelIdle /\ NationalIdle /\ FetcherIdle /\ FooterIdle
    /\ content = NoContent /\ BythjulIdle

\* The script as it stands: national_tyre_scraper_instance.scrape(inputs).
InitNational ==
    /\ engine = "National" /\ pc = "start"
    /\ \E k \in 1..MaxInputs : inputs = [i \in 1..k |-> i]
    /\ siteLinks \in 0..MaxLinks
    /\ siteCards \in 0..MaxCards
    /\ NoSiteA
    /\ RunIdle /\ DexelIdle /\ NationalIdle /\ FetcherIdle /\ FooterIdle
    /\ content = NoContent /\ BythjulIdle

InitFetcher ==
    /\ engine = "Fetcher" /\ pc = "client"
    /\ inputs = <<1>> /\ siteLinks = 0 /\ siteCards = 0
    /\ NoSiteA
    /\ RunIdle /\ DexelIdle /\ NationalIdle /\ FetcherIdle /\ FooterIdle
    /\ content = NoContent /\ BythjulIdle

InitFooter ==
    /\ engine = "Footer" /\ pc = "parsed"
    /\ inputs = <<1>> /\ siteLinks = 0 /\ siteCards = 0
    /\ NoSiteA
    /\ RunIdle /\ DexelIdle /\ NationalIdle /\ FetcherIdle
    /\ footer \in Footers /\ decision = NoStep
    /\ content = NoContent /\ BythjulIdle

NextDexel ==
    \/ DexelProbeOpen
    \/ DexelProbeCount
    \/ DexelPairOpen
    \/ DexelSelectBranch
    \/ DexelParsePage
    \/ DexelPaginate
    \/ DexelPairClose
    \/ DexelFinish

NextNational ==
    \/ NatDirectory
    \/ NatBranchPage
    \/ NatDiscovered
    \/ NatSearch
    \/ NatFinish

\* A run of the script with either engine enabled.
Init == InitDexel \/ InitNational

Next == NextDexel \/ NextNational

Spec == Init /\ [][Next]_vars

\* Calls of the fetcher by a client that survives its exceptions.
NextFetcher == ClientFetchTimed \/ ClientFetch

SpecFetcher == InitFetcher /\ [][NextFetcher]_vars

\* The pagination decision applied to footers of every shape.
NextFooter == FooterDecide

\* A result page of either site, with any cards, about to be normalized.
InitNormalizer ==
    /\ engine = "Normalizer" /\ pc = "page_loaded"
    /\ inputs = <<1>> /\ siteLinks = 0 /\ siteCards = 0
    /\ NoSiteA
    /\ RunIdle /\ DexelIdle /\ NationalIdle /\ FetcherIdle /\ FooterIdle
    /\ \E n \in 0..MaxCards :
         \/ \E cards \in [1..n -> DexelCards] :
              content = [site |-> "Dexel", cards |-> cards]
         \/ \E cards \in [1..n -> NationalCards] :
              content = [site |-> "National", cards |-> cards]
    /\ BythjulIdle

NextNormalizer == ParsePage \/ ExtractPage

SpecNormalizer == InitNormalizer /\ [][NextNormalizer]_vars

\* playwright_bythjul_test.py after line 70, on a product page of any
\* product group.
InitBythjul ==
    /\ engine = "Bythjul" /\ pc = "season_read"
    /\ inputs = <<1>> /\ siteLinks = 0 /\ siteCards = 0
    /\ NoSiteA
    /\ RunIdle /\ DexelIdle /\ NationalIdle /\ FetcherIdle /\ FooterIdle
    /\ content = NoContent
    /\ season_raw \in Seasons /\ bythjul_season = season_raw

NextBythjul == MapSeason

SpecBythjul == InitBythjul /\ [][NextBythjul]_vars

SpecFooter == InitFooter /\ [][NextFooter]_vars

\* The script is one sequential thread: it takes its next step whenever it
\* has one.
SpecLive == InitDexel /\ [][NextDexel]_vars /\ WF_vars(NextDexel)

\* ------------------------------------------------------------------ claims

Upto(n) == [i \in 1..n |-> i]

\* The footer the site shows under page p of the current search, and its
\* links.
ShownFooter(p) == Footer(p, sitePages, footerWindow, activeIsLink)

ShownLinks(p) == Links(ShownFooter(p))

\* The two things scrape_branch looks at in a footer with links.
ReadsLast(links) ==
    links # <<>> /\ Contains(LastText, Strip(links[Len(links)].text))

ActiveIsFinal(ft) == ft # <<>> /\ ft[Len(ft)].cls = "active"

\* The pagination decision on the page last handed to parse_html has been
\* taken, and no page of the pair has been parsed since.
JustDecided ==
    /\ engine = "Dexel" /\ pc # "parsed"
    /\ handed # <<>> /\ lastRule.from = handed[Len(handed)]

\* The pair is DONE, or the run has gone on from there.
PairDone == pc \in {"done", "next_pair", "branch_page", "finished"}

\* What C1 says of every state of a site-A run.
PagesInOrder ==
    engine = "Dexel" =>
      /\ handed = Upto(Len(handed))
      /\ Len(handed) <= sitePages
      /\ pc = "page_loaded" => page = Len(handed) + 1
      /\ pc = "parsed" => page = Len(handed)
      /\ pc = "done" => handed = Upto(sitePages)
      /\ \A k \in DOMAIN executed : executed[k].pages = Upto(sitePages)
      /\ error # "TimeoutError"

\* C1: for every (branch, size) pair with P >= 1 result pages, the pages
\* handed to parse_html are 1, 2, .., in order and each once, never more
\* than P; the pair is DONE only with all of 1..P handed; and every pair
\* whose first page has loaded does reach DONE, unless a card raises.
C1_PaginationHandsEveryPageOnce ==
    /\ []PagesInOrder
    /\ [](pc = "page_loaded" => <>(pc \in {"done", "aborted"}))

\* A pair over the most pages is DONE, having clicked through all of them.
C1_Witness ==
    /\ pc = "done" /\ sitePages = MaxPages
    /\ handed = Upto(MaxPages) /\ clicks = MaxPages - 1
    /\ Len(executed) >= 1

\* C2: when the footer of the page just parsed holds no link, the pair is
\* DONE with exactly one page handed to parse_html and no link clicked,
\* however many cards the page holds (none included); no exception ends
\* the run, and the last line logged for the pair is the INFO line of
\* line 179.
C2_ZeroLinksOnePage ==
    (JustDecided /\ lastRule.links = 0) =>
      /\ lastRule.rule = "zero_links"
      /\ lastRule.click = 0 /\ lastRule.to = lastRule.from
      /\ PairDone
      /\ handed = <<1>> /\ clicks = 0
      /\ error = "none"
      /\ pc = "done" =>
           /\ page = 1
           /\ log # <<>>
           /\ log[Len(log)] = InfoLine("There is only one page",
                                       inputs[inputIdx])

\* A search with one result page holding no card is DONE by the
\* zero-links rule.
C2_Witness ==
    /\ JustDecided /\ lastRule.links = 0 /\ pc = "done"
    /\ siteCards = 0 /\ handed = <<1>>

\* C3: when the last of the N links of the footer just read is the "Last"
\* link, the link clicked is the one at 0-based index N - 2, the one before
\* "Last"; it leads to the next page; the loop stays in PAGE_LOADED, on a
\* page not handed to parse_html before.
C3_LastLinkClicksSecondToLast ==
    (JustDecided /\ ReadsLast(ShownLinks(lastRule.from))) =>
      /\ lastRule.rule = "jump_to_last"
      /\ lastRule.links >= 2
      /\ lastRule.click = (lastRule.links - 2) + 1
      /\ ShownLinks(lastRule.from)[lastRule.click].page = lastRule.from + 1
      /\ lastRule.to = lastRule.from + 1
      /\ pc = "page_loaded" /\ page = lastRule.to
      /\ \A i \in DOMAIN handed : handed[i] # page

\* Far from the end of the most pages, the second-to-last link has been
\* clicked and page 2 is loaded.
C3_Witness ==
    /\ JustDecided /\ ReadsLast(ShownLinks(lastRule.from))
    /\ sitePages = MaxPages /\ lastRule.from = 1
    /\ pc = "page_loaded" /\ page = 2 /\ clicks = 1

\* C4: when the footer just read has links, the last of them is not the
\* "Last" link, and its final list item is the active one, the pair is
\* DONE on the page it was on, with no link clicked for that decision.
C4_ActiveLastStops ==
    (/\ JustDecided
     /\ ShownLinks(lastRule.from) # <<>>
     /\ ~ReadsLast(ShownLinks(lastRule.from))
     /\ ActiveIsFinal(ShownFooter(lastRule.from))) =>
      /\ lastRule.rule = "active_last"
      /\ lastRule.click = 0 /\ lastRule.to = lastRule.from
      /\ PairDone
      /\ page = lastRule.from
      /\ clicks = Len(handed) - 1

\* On the last of the most pages, whose active item is itself a link, the
\* pair is DONE.
C4_Witness ==
    /\ JustDecided /\ pc = "done"
    /\ sitePages = MaxPages /\ page = MaxPages /\ activeIsLink
    /\ ActiveIsFinal(ShownFooter(page)) /\ Len(ShownLinks(page)) >= 2

\* The rule of lines 178-189 that applies to a footer, taking the four
\* conditions in the order zero-links, Last-link, active-is-last, otherwise.
RuleInOrder(ft) ==
    IF Links(ft) = <<>> THEN "zero_links"
    ELSE IF ReadsLast(Links(ft)) THEN "jump_to_last"
    ELSE IF ActiveIsFinal(ft) THEN "active_last"
    ELSE "last_link"

\* C5: on any footer, the rule that fires is the first, in the order
\* zero-links, Last-link, active-is-last, otherwise, whose condition holds,
\* and no other; when it is the last of the four, the last link of the
\* footer is clicked and the loop stays in PAGE_LOADED.
C5_OtherwiseClicksLastLink ==
    decision # NoStep =>
      /\ decision.rule = RuleInOrder(footer)
      /\ decision.rule = "last_link" =>
           /\ decision.click = Len(Links(footer))
           /\ decision.to = Links(footer)[Len(Links(footer))].page
           /\ decision.pc = "page_loaded" /\ pc = "page_loaded"
      /\ decision.rule \in {"zero_links", "active_last"} =>
           decision.click = 0 /\ pc = "done"

\* A footer of the most items, with several links, neither ending in
\* "Last" nor in the active item: its last link has been clicked.
C5_Witness ==
    /\ decision.rule = "last_link" /\ pc = "page_loaded"
    /\ Len(footer) = MaxItems /\ decision.click >= 2
    /\ ~ReadsLast(Links(footer)) /\ ~ActiveIsFinal(footer)

\* C6: the pairs executed are (branch 0, query 1), (branch 0, query 2), ..,
\* each once, in that order; each ran in a context of its own, which is not
\* the probe's, is closed, and holds that pair's branch selection alone;
\* the context a pair starts in is fresh and the only one open; between
\* two pairs no context is open; a finished run has executed B * K pairs.
C6_EveryPairOnceInOwnSession ==
    engine = "Dexel" =>
      /\ \A i \in DOMAIN executed :
           /\ executed[i].branch = (i - 1) \div Len(inputs)
           /\ executed[i].query = inputs[((i - 1) % Len(inputs)) + 1]
           /\ executed[i].ctx # temp_context
           /\ contexts[executed[i].ctx].role = "pair"
           /\ ~contexts[executed[i].ctx].open
           /\ contexts[executed[i].ctx].selected = executed[i].branch
           /\ \A j \in DOMAIN executed :
                i # j => executed[i].ctx # executed[j].ctx
      /\ pc = "branch_page" =>
           /\ contexts[ctx] = FreshContext("pair")
           /\ \A c \in DOMAIN contexts : c # ctx => ~contexts[c].open
           /\ \A i \in DOMAIN executed : executed[i].ctx # ctx
      /\ pc \in {"next_pair", "finished"} =>
           \A c \in DOMAIN contexts : ~contexts[c].open
      /\ pc = "finished" => Len(executed) = branch_count * Len(inputs)

\* A run over the most branches and size queries has finished.
C6_Witness ==
    /\ engine = "Dexel" /\ pc = "finished"
    /\ branch_count = MaxBranches /\ Len(inputs) = MaxInputs
    /\ Len(executed) = MaxBranches * MaxInputs

\* Pairs the run has not come to yet.
PairsRemain ==
    IF engine = "Dexel"
    THEN branch < branch_count - 1 \/ inputIdx < Len(inputs)
    ELSE postcodeIdx < Len(postcodes) \/ natInputIdx < Len(inputs)

\* C7, as the specification states it: the run is never over, because of
\* one card's extraction failure, with pairs left unprocessed.
C7_CardFailureDoesNotEndRun ==
    ~(/\ pc = "aborted" /\ error = "ExtractionFailure"
      /\ failedAt.card > 0
      /\ PairsRemain)

\* The rows of the store that come from one pair, in order.
PairRows(place, query) ==
    SelectSeq(origin, LAMBDA o : o.place = place /\ o.query = query)

\* C8, as the specification states it: once a pair has failed at a card,
\* the store holds no row that comes from that pair.
C8_FailedPairAbsent ==
    failedAt.card > 0 => PairRows(failedAt.place, failedAt.query) = <<>>

\* C8, amended: once a pair has failed at card c of page g, the rows of
\* the store that come from that pair are those of the cards before it,
\* all the cards of pages 1..g-1 and cards 1..c-1 of page g, each once and
\* in order, and they are the last rows of the store; a pair of site B
\* whose fetch failed has no row.
C8_FailedPairKeepsRowsBeforeFailure ==
    /\ failedAt.card > 0 =>
         LET rows == PairRows(failedAt.place, failedAt.query)
             kept == (failedAt.page - 1) * siteCards + failedAt.card - 1
         IN /\ pc = "aborted"
            /\ Len(rows) = kept
            /\ \A k \in 1..Len(rows) :
                 /\ rows[k].page = ((k - 1) \div siteCards) + 1
                 /\ rows[k].card = ((k - 1) % siteCards) + 1
            /\ rows = SubSeq(origin, Len(origin) - Len(rows) + 1, Len(origin))
            /\ Len(store) = Len(origin)
    /\ (/\ engine = "National" /\ pc = "aborted"
        /\ error \in {"HTTPError", "ConnectionError"}
        /\ postcodeIdx <= Len(postcodes)) =>
         PairRows(postcodes[postcodeIdx], inputs[natInputIdx]) = <<>>

\* A pair of site A has failed at the second card of its second page, the
\* rows of the cards before it in the store.
C8_Witness ==
    /\ engine = "Dexel" /\ failedAt.page = 2 /\ failedAt.card = 2
    /\ Len(PairRows(failedAt.place, failedAt.query)) = siteCards + 1

\* C9: a request of a site-B run answered with a non-2xx status is the
\* last request of the run, so it is not issued again and nothing is
\* requested after it; the run is over with the HTTPError; and no row of
\* the store comes from that request or a later one.
C9_HttpErrorEndsRun ==
    engine = "National" =>
      \A i \in DOMAIN requests :
        requests[i].outcome = "http_error" =>
          /\ i = Len(requests)
          /\ \A j \in 1..(i - 1) : requests[j].url # requests[i].url
          /\ pc = "aborted" /\ error = "HTTPError"
          /\ lastResult = "HTTPError"
          /\ \A k \in DOMAIN origin : origin[k].req < i

\* A search page was answered with a non-2xx status after an earlier pair
\* had put rows in the store.
C9_Witness ==
    /\ engine = "National" /\ Len(requests) >= 3 /\ store # <<>>
    /\ requests[Len(requests)].outcome = "http_error"
    /\ requests[Len(requests)].url[1] = "tyres-search"
    /\ pc = "aborted"

\* C10: a request issued by fetch_html_timed is issued, and so answered,
\* no less than one time unit after the response to the call before it;
\* and after any call that got a response the timestamp is the time the
\* response came, not the time the request was issued.
C10_GapBetweenCompletions ==
    /\ (lastTimed /\ gapIssued >= 0) => gapIssued >= TicksPerUnit
    /\ (lastTimed /\ gapDone >= 0) => gapDone >= TicksPerUnit
    /\ lastOutcome \in {"ok", "http_error"} => last_request_time = now

\* Two rate-limited fetches in a row: the second request went out exactly
\* one unit after the first response and took time to be answered.
C10_Witness ==
    /\ engine = "Fetcher" /\ lastTimed
    /\ gapIssued = TicksPerUnit /\ gapDone > gapIssued
    /\ last_request_time = now

\* C11, as the specification states it: in a site-B run, the responses to
\* two consecutive requests are never less than one time unit apart.
C11_RequestsOneUnitApart ==
    (engine = "National" /\ gapDone >= 0) => gapDone >= TicksPerUnit

\* C12: every step of a run leaves the rows already in the store as they
\* are and in place, and adds one row for each call of add_to_database it
\* makes, also when the table already holds an identical row.
C12_StoreAppendOnly ==
    [][/\ Len(store') >= Len(store)
       /\ SubSeq(store', 1, Len(store)) = store
       /\ Len(store') - Len(store) = Len(origin') - Len(origin)]_vars

\* The store holds two identical rows, from different cards.
C12_Witness ==
    \E i, j \in DOMAIN store : i < j /\ store[i] = store[j]

\* The row of a well-formed card of either site.
GoodDexelRow ==
    LET obs == DexelObservation(GoodDexelCard)
    IN Row("Dexel", obs.brand, obs.pattern, obs.size, obs.season, obs.price)

GoodNationalRow ==
    LET obs == NationalObservation(GoodNationalCard)
    IN Row("National", obs.brand, obs.pattern, obs.size, obs.season,
           obs.price)

\* The rows a run of site A adds when nothing fails, the k-th of them: the
\* cards in the order branch, size query, page, card.
DexelIntended(k) ==
    LET perPage == siteCards
        perPair == sitePages * perPage
        perBranch == Len(inputs) * perPair
    IN [site |-> "Dexel",
        place |-> (k - 1) \div perBranch,
        query |-> inputs[(((k - 1) % perBranch) \div perPair) + 1],
        page |-> (((k - 1) % perPair) \div perPage) + 1,
        card |-> ((k - 1) % perPage) + 1,
        row |-> GoodDexelRow]

\* The same for site B: postcode, size query, card.
NationalIntended(k) ==
    LET perPair == siteCards
        perPostcode == Len(inputs) * perPair
    IN [site |-> "National",
        place |-> postcodes[((k - 1) \div perPostcode) + 1],
        query |-> inputs[(((k - 1) % perPostcode) \div perPair) + 1],
        page |-> 1,
        card |-> ((k - 1) % perPair) + 1,
        row |-> GoodNationalRow]

\* The k-th row of the store is the k-th row of the failure-free run.
AsIntended(k, w) ==
    /\ store[k] = w.row
    /\ origin[k].site = w.site /\ origin[k].place = w.place
    /\ origin[k].query = w.query /\ origin[k].page = w.page
    /\ origin[k].card = w.card

\* The cards the run has passed without failure when it is over.
CardsBeforeAbort ==
    IF engine = "Dexel"
    THEN ((branch * Len(inputs) + inputIdx - 1) * sitePages
          + failedAt.page - 1) * siteCards + failedAt.card - 1
    ELSE IF postcodeIdx > Len(postcodes) THEN 0
    ELSE ((postcodeIdx - 1) * Len(inputs) + natInputIdx - 1) * siteCards
         + (IF failedAt.card > 0 THEN failedAt.card - 1 ELSE 0)

\* C13: at every moment of a run, and so when it aborts, the rows of the
\* store are the first rows, in order, of those the run adds when nothing
\* fails; a run that has aborted has added every row up to the card or the
\* request that failed.
C13_AbortLeavesPrefix ==
    engine \in {"Dexel", "National"} =>
      /\ Len(store) = Len(origin)
      /\ \A k \in DOMAIN store :
           AsIntended(k, IF engine = "Dexel" THEN DexelIntended(k)
                         ELSE NationalIntended(k))
      /\ pc = "aborted" => Len(store) = CardsBeforeAbort

\* A run of site A over two branches has aborted in its second branch,
\* with the rows of the first in the store.
C13_Witness ==
    /\ engine = "Dexel" /\ pc = "aborted" /\ branch = 1
    /\ failedAt.page = 2 /\ failedAt.card = 2
    /\ Len(store) > sitePages * siteCards

\* Whether the text a required field is read from is absent from the card,
\* or holds nothing once trimmed.
Lacking(text) == text = None \/ Strip(text) = <<>>

LacksRequiredField(site, card) ==
    IF site = "Dexel"
    THEN \/ ~card.info_div \/ Lacking(card.brand) \/ Lacking(card.para)
         \/ card.prices.attr # "object" \/ Lacking(card.prices.minimum_price)
    ELSE Lacking(card.brand) \/ Lacking(card.size) \/ Lacking(card.price)

\* C14, as the specification states it: once a page of either site has been
\* normalized, no card of it whose brand, size or price is missing or empty
\* after trimming has a row in the store, and no row of the store has an
\* empty brand, size or price.
C14_NoRowLacksRequiredField ==
    (engine = "Normalizer" /\ pc # "page_loaded") =>
      /\ \A i \in DOMAIN content.cards :
           LacksRequiredField(content.site, content.cards[i]) =>
             ~\E k \in DOMAIN origin : origin[k].card = i
      /\ \A k \in DOMAIN store :
           /\ store[k].tyre_brand # <<>>
           /\ store[k].tyre_size # <<>>
           /\ store[k].price # <<>>

\* The column default of tyre_pattern and seasonality.
Unknown == <<"u", "n", "k", "n", "o", "w", "n">>

CardRaises(site, card) ==
    IF site = "Dexel" THEN DexelCardRaises(card) ELSE NationalCardRaises(card)

CardPattern(card) == card.pattern

CardSeason(site, card) == IF site = "Dexel" THEN card.title ELSE card.season

\* The rows recorded for card i of the page.
RowsOfCard(i) == { k \in DOMAIN origin : origin[k].card = i }

\* C15, as the specification states it: once a page of either site has been
\* normalized, a card that the loop reached, whose brand, size and price are
\* recoverable and whose pattern or season is missing or blank, has exactly
\* one row in the store, and that row holds "unknown" in the unrecoverable
\* field.
C15_UnrecoverableFieldIsUnknown ==
    (engine = "Normalizer" /\ pc # "page_loaded") =>
      \A i \in DOMAIN content.cards :
        LET card == content.cards[i]
            site == content.site
        IN (/\ \A j \in 1..(i - 1) : ~CardRaises(site, content.cards[j])
            /\ ~LacksRequiredField(site, card)
            /\ Lacking(CardPattern(card)) \/ Lacking(CardSeason(site, card)))
           => /\ Cardinality(RowsOfCard(i)) = 1
              /\ \A k \in RowsOfCard(i) :
                   /\ Lacking(CardPattern(card)) =>
                        store[k].tyre_pattern = Unknown
                   /\ Lacking(CardSeason(site, card)) =>
                        store[k].seasonality = Unknown

\* C16: the season mapping applied to its own result changes nothing, and
\* applied to a product group other than the two it translates it changes
\* nothing either ("Winter", obtained from "Vinterdäck", stays "Winter");
\* the trim-and-capitalize cleanup of site A's season text (parse_html) is
\* idempotent as well.
C16_SeasonMappingIdempotent ==
    [][/\ pc = "season_mapped" => bythjul_season' = bythjul_season
       /\ (pc = "season_read" /\ bythjul_season \notin {Vinterdack, Sommardack})
            => bythjul_season' = bythjul_season
       /\ Capitalize(Strip(Capitalize(Strip(season_raw))))
            = Capitalize(Strip(season_raw))]_vars

C16_Witness ==
    /\ engine = "Bythjul" /\ pc = "season_remapped"
    /\ season_raw = Vinterdack /\ bythjul_season = Winter

\* Whether p is the text raw without the whitespace around it and without
\* its spaces.
StrippedOf(raw, p) == p = Strip(SelectSeq(raw, LAMBDA c : c # " "))

\* C17: once discovery has returned, every postcode text found on a branch
\* page is in the result in its stripped form, every postcode of the result
\* is the stripped form of a text found on a branch page, no postcode is in
\* the result twice, and the list handed to extraction is the one written
\* to postcodes.json.
C17_DiscoveryYieldsDistinctPostcodes ==
    (engine = "National" /\ artifact # None) =>
      /\ \A raw \in branchPostcodes :
           \E i \in DOMAIN postcodes : StrippedOf(raw, postcodes[i])
      /\ \A i \in DOMAIN postcodes :
           \E raw \in branchPostcodes : StrippedOf(raw, postcodes[i])
      /\ \A i, j \in DOMAIN postcodes : i # j => postcodes[i] # postcodes[j]
      /\ artifact = postcodes

\* Three branch pages, two of them with the same postcode written
\* differently: two postcodes.
C17_Witness ==
    /\ engine = "National" /\ artifact # None /\ siteLinks = 3
    /\ branchPostcodes = {<<"a", " ", "b">>, <<" ", "a", "b", " ">>,
                          <<"s", "\t", "w", " ">>}
    /\ Len(postcodes) = 2

\* The cards of the site: one per branch, size query, result page and
\* position on the page.
SiteACards ==
    { [place |-> b, query |-> inputs[q], page |-> p, card |-> c] :
        b \in 0..(siteBranches - 1), q \in DOMAIN inputs,
        p \in 1..sitePages, c \in 1..siteCards }

RowsOf(card) ==
    { k \in DOMAIN origin :
        /\ origin[k].place = card.place /\ origin[k].query = card.query
        /\ origin[k].page = card.page /\ origin[k].card = card.card }

\* C18: when a run of site A finishes, the store holds as many rows as the
\* site has cards over all pages of all (branch, size) pairs, exactly one
\* per card, each with source "Dexel" and with the size "1 2" made of the
\* first two tokens of the card's size text "1  2<tab>b"; and as long as
\* only the probe context has been created the store is empty.
C18_OneObservationPerCard ==
    engine = "Dexel" =>
      /\ pc = "finished" =>
           /\ Len(store) = siteBranches * Len(inputs) * sitePages * siteCards
           /\ Len(origin) = Len(store)
           /\ \A card \in SiteACards : Cardinality(RowsOf(card)) = 1
           /\ \A k \in DOMAIN store :
                /\ store[k].website_name = "Dexel"
                /\ store[k].tyre_size = <<"1", " ", "2">>
      /\ Len(contexts) <= 1 => store = <<>>

\* One branch, one size query, one page with two cards: two rows.
C18_Witness ==
    /\ engine = "Dexel" /\ pc = "finished" /\ error = "none"
    /\ siteBranches = 1 /\ Len(inputs) = 1 /\ sitePages = 1 /\ siteCards = 2
    /\ Len(store) = 2
    /\ temp_context = 1 /\ ~contexts[1].open

\* The Observation the normalizer of the page's site makes of card i.
ObservationOf(i) ==
    IF content.site = "Dexel"
    THEN DexelObservation(content.cards[i])
    ELSE NationalObservation(content.cards[i])

\* The k-th record call of the page: its log line carries the Observation
\* of card k, and the row has the Observation's brand, pattern, size and
\* price.
RecordedAsHanded(k) ==
    /\ log[k].msg = "Adding tyre to database"
    /\ log[k].arg = <<content.site, ObservationOf(k).brand,
                      ObservationOf(k).pattern, ObservationOf(k).size,
                      ObservationOf(k).season, ObservationOf(k).price>>
    /\ store[k].website_name = content.site
    /\ store[k].tyre_brand = ObservationOf(k).brand
    /\ store[k].tyre_pattern = ObservationOf(k).pattern
    /\ store[k].tyre_size = ObservationOf(k).size
    /\ store[k].price = ObservationOf(k).price

\* C19, as the specification states it: every row of the store has the
\* brand, pattern, size, season and price of the Observation handed to the
\* sink, which are the values of the call's log line.
C19_RowEqualsObservation ==
    engine = "Normalizer" =>
      /\ Len(log) = Len(store)
      /\ \A k \in DOMAIN store :
           /\ RecordedAsHanded(k)
           /\ store[k].seasonality = ObservationOf(k).season

\* C19, amended: every row of the store has the brand, pattern, size and
\* price of the Observation handed to the sink, which are the values of
\* the call's log line; its season is the Observation's in lower case.
C19_RowEqualsObservationSeasonLowered ==
    engine = "Normalizer" =>
      /\ Len(log) = Len(store)
      /\ \A k \in DOMAIN store :
           /\ RecordedAsHanded(k)
           /\ \A i \in DOMAIN store[k].seasonality :
                store[k].seasonality[i] \notin {"A", "B", "S", "W"}
           /\ Len(store[k].seasonality) = Len(ObservationOf(k).season)
           /\ \A i \in DOMAIN store[k].seasonality :
                store[k].seasonality[i] \in
                  {ObservationOf(k).season[i],
                   LowerChar(ObservationOf(k).season[i])}

C19_Witness ==
    /\ engine = "Normalizer" /\ Len(store) = 2
    /\ store[1].seasonality # log[1].arg[5]
    /\ store[2].seasonality = log[2].arg[5]

OpenContexts == { i \in DOMAIN contexts : contexts[i].open }

\* C20: in a run of site A at most one browser context is open at any
\* moment; the first context created is the probe and the only probe, it is
\* closed once a second context exists, and from then on the branch count
\* is the number of branch buttons the probe saw; a context is created only
\* when none is open; a finished run has created 1 + B*K contexts, B the
\* branches and K the size queries, and left none open.
C20_OneSessionAtATime ==
    [][engine = "Dexel" =>
         /\ Cardinality(OpenContexts') <= 1
         /\ \A i \in DOMAIN contexts' :
              (contexts'[i].role = "probe") = (i = 1)
         /\ Len(contexts') >= 2 =>
              /\ 1 \notin OpenContexts'
              /\ branch_count' = siteBranches
         /\ branch_count' # branch_count => pc = "probe"
         /\ Len(contexts') > Len(contexts) =>
              /\ OpenContexts = {}
              /\ OpenContexts' = {Len(contexts')}
         /\ pc' = "finished" =>
              /\ Len(contexts') = 1 + siteBranches * Len(inputs)
              /\ OpenContexts' = {}]_vars

C20_Witness ==
    /\ engine = "Dexel" /\ pc = "finished"
    /\ siteBranches = 2 /\ Len(inputs) = 2
    /\ Len(contexts) = 5 /\ OpenContexts = {}

\* C21, as stated: whenever the jump-to-last rule has fired on a footer,
\* the link clicked exists and is not the "Last" link, the last link of the
\* footer, whatever the number of links, one included.
C21_JumpToLastNeverClicksLast ==
    (engine = "Footer" /\ decision.rule = "jump_to_last") =>
      /\ decision.links >= 1
      /\ decision.click \in 1..decision.links
      /\ decision.click # Len(Links(footer))

====
